---- MODULE Spec2Model ----
(***************************************************************************)
(* 4x4 Hex with a negamax / alpha-beta search engine (Hex_utils.py,        *)
(* Hex_ai.py).  Boards are indexed board[row][col] with rows and columns   *)
(* 0..SIZE-1; a Python None is the empty tuple and a present value x is    *)
(* the one-element tuple <<x>>; a 64-bit integer is the set of the         *)
(* positions of its one bits, so that XOR is the symmetric difference.     *)
(***************************************************************************)
EXTENDS Integers, Sequences, FiniteSets, TLC

VARIABLES board, player, depth, alpha, beta, cache, ret, pc,
          ai_players, move_count, acc

vars == <<board, player, depth, alpha, beta, cache, ret, pc,
          ai_players, move_count, acc>>

\* ------------------------------------------------------------ constants
SIZE == 4

WIN_SCORE == 999999

EVAL_SENTINEL == 9999

\* math.inf: larger than every score the engine can produce
Inf == 1000000000

None == <<>>

Some(x) == <<x>>

Players == {1, -1}

Cells == 0 .. (SIZE * SIZE - 1)

\* ------------------------------------------------------------ Hex_utils
\* range(a, b, s) as a sequence
RangeSeq(a, b, s) == [k \in 1 .. ((b - a + s - 1) \div s) |-> a + (k - 1) * s]

InSeq(x, seq) == \E k \in 1 .. Len(seq) : seq[k] = x

\* Python list indexing: a negative index counts from the end
PyIdx(i) == IF i < 0 THEN SIZE + i ELSE i

At(b, r, c) == b[PyIdx(r)][PyIdx(c)]

SetCell(b, r, c, v) == [b EXCEPT ![r][c] = v]

directions == << <<-1, 0>>, <<1, 0>>, <<0, -1>>, <<0, 1>>, <<-1, 1>>, <<1, -1>> >>

neighbors_in(cell, dirs) ==
  LET row == cell \div SIZE
      col == cell % SIZE
      InBounds(d) == /\ 0 <= row + d[1] /\ row + d[1] < SIZE
                     /\ 0 <= col + d[2] /\ col + d[2] < SIZE
      kept == SelectSeq(dirs, InBounds)
  IN  [k \in 1 .. Len(kept) |-> (row + kept[k][1]) * SIZE + (col + kept[k][2])]

\* mutant: the two diagonal offsets are missing (a square grid)
get_neighbors_square(cell) == neighbors_in(cell, SubSeq(directions, 1, 4))

\* mutant: the last offset is (1, 1) instead of (1, -1)
get_neighbors_wrong_diagonal(cell) ==
  neighbors_in(cell, SubSeq(directions, 1, 5) \o << <<1, 1>> >>)

get_neighbors(cell) == neighbors_in(cell, directions)

\* get_neighbors, tabulated once for the 16 cells
NeighborTable == [cell \in Cells |-> get_neighbors(cell)]

RECURSIVE WinnerLoop(_, _, _, _, _)
WinnerLoop(b, value, goal, stack, visited) ==
  IF stack = <<>> THEN FALSE
  ELSE LET current == stack[Len(stack)]
           rest == SubSeq(stack, 1, Len(stack) - 1)
           OwnedCell(n) == At(b, n \div SIZE, n % SIZE) = value
       IN  IF InSeq(current, goal) THEN TRUE
           ELSE IF current \notin visited
                THEN WinnerLoop(b, value, goal,
                                rest \o SelectSeq(NeighborTable[current], OwnedCell),
                                visited \cup {current})
                ELSE WinnerLoop(b, value, goal, rest, visited)

\* mutant: player -1's goal cells are tested in the first column
check_winner_first_column(b, p) ==
  LET value == IF p = 1 THEN 1 ELSE -1
      TopOwned(i) == At(b, 0, i) = value
      BottomOwned(i) == At(b, -1, i % SIZE) = value
      LeftOwned(i) == At(b, i \div SIZE, 0) = value
      RightOwned(i) == At(b, i \div SIZE, 0) = value
      start == IF p = 1
               THEN SelectSeq(RangeSeq(0, SIZE, 1), TopOwned)
               ELSE SelectSeq(RangeSeq(0, SIZE * SIZE, SIZE), LeftOwned)
      goal == IF p = 1
              THEN SelectSeq(RangeSeq(SIZE * (SIZE - 1), SIZE * SIZE, 1), BottomOwned)
              ELSE SelectSeq(RangeSeq(SIZE - 1, SIZE * SIZE, SIZE), RightOwned)
  IN  WinnerLoop(b, value, goal, start, {})

check_winner(b, p) ==
  LET value == IF p = 1 THEN 1 ELSE -1
      TopOwned(i) == At(b, 0, i) = value
      BottomOwned(i) == At(b, -1, i % SIZE) = value
      LeftOwned(i) == At(b, i \div SIZE, 0) = value
      RightOwned(i) == At(b, i \div SIZE, -1) = value
      start == IF p = 1
               THEN SelectSeq(RangeSeq(0, SIZE, 1), TopOwned)
               ELSE SelectSeq(RangeSeq(0, SIZE * SIZE, SIZE), LeftOwned)
      goal == IF p = 1
              THEN SelectSeq(RangeSeq(SIZE * (SIZE - 1), SIZE * SIZE, 1), BottomOwned)
              ELSE SelectSeq(RangeSeq(SIZE - 1, SIZE * SIZE, SIZE), RightOwned)
  IN  WinnerLoop(b, value, goal, start, {})

initialize_board == [r \in 0 .. SIZE - 1 |-> [c \in 0 .. SIZE - 1 |-> 0]]

is_valid_action(b, action) == At(b, action \div SIZE, action % SIZE) = 0

\* apply_action: raised is the ValueError, board the board afterwards
apply_action(b, action, p) ==
  IF ~is_valid_action(b, action)
  THEN [raised |-> TRUE, board |-> b]
  ELSE [raised |-> FALSE, board |-> SetCell(b, action \div SIZE, action % SIZE, p)]

\* ------------------------------------------------------------ Zobrist hash
\* init_zobrist: random.seed(2023), then 16 pairs of random.getrandbits(64)
ZOBRIST_RANDOMS ==
  <<
     << {2,4,6,7,8,9,11,13,16,17,18,25,29,30,32,34,35,36,45,49,50,51,52,55,56,57,60,61,63},
        {0,1,3,4,5,10,12,13,14,15,16,17,19,22,23,27,28,29,30,31,32,33,35,37,39,40,41,46,49,52,54,57,60,61,62} >>,
     << {0,5,8,9,11,13,14,18,27,28,30,31,32,36,40,42,43,46,47,50,53,55,56,57,61,62},
        {0,2,3,5,6,8,11,13,14,15,16,18,19,20,21,22,23,24,28,30,41,42,43,47,51,52,53,54,58,59,60,63} >>,
     << {0,2,3,9,10,11,12,13,15,17,18,19,21,25,28,31,32,34,35,37,38,39,41,45,46,49,50,52,53,54,55,57,58,59,61,62,63},
        {1,3,4,5,6,7,8,9,11,16,18,20,22,25,26,28,30,34,36,39,42,44,46,48,49,53,57,61,63} >>,
     << {0,1,2,6,7,8,11,12,13,15,18,19,20,23,24,27,28,34,35,36,37,39,40,41,43,44,45,50,52,54,55,59,62,63},
        {1,2,7,8,9,12,15,17,18,20,21,23,24,25,26,27,28,33,34,38,39,42,44,45,46,47,48,51,53,55,57,58,61,63} >>,
     << {0,1,2,3,7,8,9,11,14,15,16,19,21,23,24,26,27,30,32,34,37,39,41,42,43,44,45,46,47,48,53,55,57,58,60,62,63},
        {0,4,5,6,8,9,10,14,15,21,22,25,28,29,31,32,33,35,36,37,38,40,41,45,47,48,49,53,59,63} >>,
     << {0,1,4,7,10,11,12,13,15,17,18,21,22,23,24,25,26,28,29,31,34,35,36,40,43,47,52,56,57,58,63},
        {0,1,3,4,5,8,9,12,13,15,19,20,24,26,27,30,32,36,37,38,39,41,42,43,44,47,49,52,55,56,58,59,61} >>,
     << {3,4,5,6,8,9,11,13,14,15,16,17,18,19,23,24,25,27,28,29,32,33,34,35,39,41,42,44,45,48,49,51,52,55,57,59,61,62,63},
        {0,1,3,5,6,7,10,12,14,16,18,19,22,25,27,28,29,30,31,34,35,36,37,41,43,48,49,52,53,54,56,58,59,61,62,63} >>,
     << {1,3,4,6,8,11,12,13,14,16,17,19,20,21,24,26,27,29,33,35,36,38,44,45,47,48,51,52,53,56,57,61,63},
        {1,2,4,6,7,9,11,17,18,19,20,22,26,33,34,35,38,40,42,43,44,45,46,47,49,50,51,52,53,54,55,56,58,60,61} >>,
     << {1,2,4,6,8,12,13,15,20,21,22,23,26,27,28,30,34,35,36,37,38,43,44,47,51,52,53,54,55,56,60},
        {3,4,5,11,12,14,16,17,18,23,24,25,26,27,28,31,32,34,35,39,40,41,42,44,51,54,61} >>,
     << {0,1,6,10,12,13,14,15,16,17,19,20,21,22,26,28,29,31,35,36,37,41,43,45,46,47,48,50,51,53,54,56,59,60,62,63},
        {3,4,6,8,9,10,11,12,14,18,22,27,30,31,34,35,38,42,45,49,50,52,53,54,55,56,59} >>,
     << {0,1,2,3,5,6,9,10,13,16,17,18,21,24,25,28,29,33,34,37,40,41,42,45,47,52,55,56,57,58,61},
        {0,2,3,8,10,14,16,17,19,21,23,27,28,29,30,31,32,36,39,41,44,45,46,47,49,50,51,52,54,55,57,59,60,61,62} >>,
     << {0,1,2,4,5,8,9,10,13,14,15,16,17,18,19,23,25,26,29,30,31,32,33,34,37,38,39,40,43,44,49,51,53,54,57,60,61,62},
        {0,2,4,7,11,15,18,19,20,27,31,32,33,34,35,37,39,41,43,44,45,46,49,50,53,54,56,57,58,60,62} >>,
     << {0,1,3,4,5,6,8,10,13,14,15,16,19,20,21,23,31,33,34,36,37,38,39,40,41,42,43,45,48,51,54,55,60},
        {0,3,5,7,8,9,10,12,13,14,15,16,17,18,19,21,22,24,25,28,33,37,40,41,43,44,47,48,49,51,53,55,56,59,63} >>,
     << {1,5,6,7,8,9,12,13,16,17,18,19,20,24,26,28,29,30,31,33,34,36,38,39,40,41,42,43,44,45,46,47,48,50,51,57,58,60,61,62},
        {0,2,8,9,10,12,13,14,18,19,20,23,24,25,26,27,28,29,30,32,33,36,38,40,42,47,49,52,54,55,56,57,58} >>,
     << {8,10,12,13,17,18,24,25,27,30,31,32,35,38,40,41,44,46,47,48,50,52,54,56,57,58,59,60},
        {0,3,5,6,7,9,10,12,13,14,15,17,20,23,25,28,31,32,39,40,41,42,47,48,49,52,55,58,59,60,61} >>,
     << {0,1,2,4,10,11,13,19,20,21,23,24,26,27,28,29,31,36,38,39,41,43,49,51,55,56,58,59,60,63},
        {0,2,3,4,5,6,8,9,11,12,13,15,16,17,18,20,24,25,29,31,32,37,41,44,46,49,51,52,54,59,60,61,63} >>
  >>

XOR(x, y) == (x \ y) \cup (y \ x)

\* mutant: both players' stones take the first value of the cell's pair
RECURSIVE HashLoop_one_colour(_, _, _)
HashLoop_one_colour(b, cell_id, h) ==
  IF cell_id >= SIZE * SIZE THEN h
  ELSE LET val == At(b, cell_id \div SIZE, cell_id % SIZE)
       IN  HashLoop_one_colour(b, cell_id + 1,
                               IF val = 1 \/ val = -1
                               THEN XOR(h, ZOBRIST_RANDOMS[cell_id + 1][1])
                               ELSE h)

\* mutant: r, c = divmod(cell_id, SIZE) read as c, r
RECURSIVE HashLoop_column_major(_, _, _)
HashLoop_column_major(b, cell_id, h) ==
  IF cell_id >= SIZE * SIZE THEN h
  ELSE LET val == At(b, cell_id % SIZE, cell_id \div SIZE)
       IN  HashLoop_column_major(b, cell_id + 1,
                    IF val = 1 THEN XOR(h, ZOBRIST_RANDOMS[cell_id + 1][1])
                    ELSE IF val = -1 THEN XOR(h, ZOBRIST_RANDOMS[cell_id + 1][2])
                    ELSE h)

RECURSIVE HashLoop(_, _, _)
HashLoop(b, cell_id, h) ==
  IF cell_id >= SIZE * SIZE THEN h
  ELSE LET val == At(b, cell_id \div SIZE, cell_id % SIZE)
       IN  HashLoop(b, cell_id + 1,
                    IF val = 1 THEN XOR(h, ZOBRIST_RANDOMS[cell_id + 1][1])
                    ELSE IF val = -1 THEN XOR(h, ZOBRIST_RANDOMS[cell_id + 1][2])
                    ELSE h)

compute_zobrist_hash(b) == HashLoop(b, 0, {})

\* ------------------------------------------------------------ evaluation
\* mutant: queue.pop() instead of queue.popleft()
RECURSIVE BfsLoop_pop_right(_, _, _, _, _)
BfsLoop_pop_right(b, target_value, p, queue, visited) ==
  IF queue = <<>> THEN None
  ELSE LET current == queue[Len(queue)][1]
           dist == queue[Len(queue)][2]
           is_goal == IF p = 1 THEN (current \div SIZE) = (SIZE - 1)
                      ELSE (current % SIZE) = (SIZE - 1)
           Fresh(nxt) == /\ At(b, nxt \div SIZE, nxt % SIZE) = target_value
                         /\ nxt \notin visited
           added == SelectSeq(NeighborTable[current], Fresh)
       IN  IF is_goal THEN Some(dist)
           ELSE BfsLoop_pop_right(b, target_value, p,
                        SubSeq(queue, 1, Len(queue) - 1) \o [k \in 1 .. Len(added) |-> <<added[k], dist + 1>>],
                        visited \cup {added[k] : k \in 1 .. Len(added)})

RECURSIVE BfsLoop(_, _, _, _, _)
BfsLoop(b, target_value, p, queue, visited) ==
  IF queue = <<>> THEN None
  ELSE LET current == queue[1][1]
           dist == queue[1][2]
           is_goal == IF p = 1 THEN (current \div SIZE) = (SIZE - 1)
                      ELSE (current % SIZE) = (SIZE - 1)
           Fresh(nxt) == /\ At(b, nxt \div SIZE, nxt % SIZE) = target_value
                         /\ nxt \notin visited
           added == SelectSeq(NeighborTable[current], Fresh)
       IN  IF is_goal THEN Some(dist)
           ELSE BfsLoop(b, target_value, p,
                        Tail(queue) \o [k \in 1 .. Len(added) |-> <<added[k], dist + 1>>],
                        visited \cup {added[k] : k \in 1 .. Len(added)})

\* the queue and the visited set seeded from the start cells
SeedAndSearch(b, target_value, p, starts) ==
  BfsLoop(b, target_value, p,
          [k \in 1 .. Len(starts) |-> <<starts[k], 0>>],
          {starts[k] : k \in 1 .. Len(starts)})

TimesSize(rows) == [k \in 1 .. Len(rows) |-> rows[k] * SIZE]

shortest_path_length(b, p) ==
  LET target_value == IF p = 1 THEN 1 ELSE -1
      TopOwned(c) == At(b, 0, c) = target_value
      LeftOwned(r) == At(b, r, 0) = target_value
  IN  SeedAndSearch(b, target_value, p,
                    IF p = 1 THEN SelectSeq(RangeSeq(0, SIZE, 1), TopOwned)
                    ELSE TimesSize(SelectSeq(RangeSeq(0, SIZE, 1), LeftOwned)))

\* the scoring table of evaluate_board
ScoreOf(sp_self, sp_opp) ==
  IF sp_self = None /\ sp_opp = None THEN 0
  ELSE IF sp_self = None THEN -EVAL_SENTINEL
  ELSE IF sp_opp = None THEN EVAL_SENTINEL
  ELSE sp_opp[1] - sp_self[1]

evaluate_board(b, p) ==
  ScoreOf(shortest_path_length(b, p), shortest_path_length(b, -p))

\* ------------------------------------------------------------ move ordering
\* mutant: the stone placed for scoring is not taken back
RECURSIVE ScoreLoop_no_undo(_, _, _, _, _)
ScoreLoop_no_undo(b, valid_actions, i, p, scored_actions) ==
  IF i > Len(valid_actions) THEN [scored |-> scored_actions, board |-> b]
  ELSE LET action == valid_actions[i]
           placed == SetCell(b, action \div SIZE, action % SIZE, p)
       IN  ScoreLoop_no_undo(placed, valid_actions, i + 1, p,
                             Append(scored_actions, <<action, evaluate_board(placed, p)>>))

\* the for loop of order_moves: place, score, take back
RECURSIVE ScoreLoop(_, _, _, _, _)
ScoreLoop(b, valid_actions, i, p, scored_actions) ==
  IF i > Len(valid_actions) THEN [scored |-> scored_actions, board |-> b]
  ELSE LET action == valid_actions[i]
           r == action \div SIZE
           c == action % SIZE
           placed == SetCell(b, r, c, p)
           score == evaluate_board(placed, p)
           undone == SetCell(placed, r, c, 0)
       IN  ScoreLoop(undone, valid_actions, i + 1, p,
                     Append(scored_actions, <<action, score>>))

\* list.sort(key=score, reverse=True): stable, descending
RECURSIVE SortDesc(_)
SortDesc(seq) ==
  IF seq = <<>> THEN <<>>
  ELSE LET rest == SortDesc(Tail(seq))
           x == Head(seq)
           Before(k) == rest[k][2] > x[2]
           n == Cardinality({k \in 1 .. Len(rest) : Before(k)})
       IN  SubSeq(rest, 1, n) \o <<x>> \o SubSeq(rest, n + 1, Len(rest))

ActionsOf(sorted) == [k \in 1 .. Len(sorted) |-> sorted[k][1]]

SortedMoves(loop) == [actions |-> ActionsOf(SortDesc(loop.scored)), board |-> loop.board]

order_moves(b, valid_actions, p) == SortedMoves(ScoreLoop(b, valid_actions, 1, p, <<>>))

\* ------------------------------------------------------------ negamax
Max(x, y) == IF x >= y THEN x ELSE y

\* mutant: every cell is offered as a move, occupied or not
EmptyCells_all(b) == RangeSeq(0, SIZE * SIZE, 1)

EmptyCells(b) ==
  LET IsEmpty(cell_id) == b[cell_id \div SIZE][cell_id % SIZE] = 0
  IN  SelectSeq(RangeSeq(0, SIZE * SIZE, 1), IsEmpty)

\* mutant: the depth is not added to the losing sentinel
TerminalScore_no_depth(d) == -WIN_SCORE

\* return (-999999 + depth, None)
TerminalScore(d) == -WIN_SCORE + d

Returned(score, move, b, ch) == [score |-> score, move |-> move, board |-> b, cache |-> ch]

\* cache[cache_key] = (best_score, best_move); return (best_score, best_move)
StoreAndReturn(b, ch, cache_key, best_score, best_move) ==
  Returned(best_score, best_move, b,
           (cache_key :> <<best_score, best_move>>) @@ ch)

\* One activation of negamax.  i = 0 is the entry of the function (the terminal
\* check, the enumeration of the empty cells, the depth-0 return, the cache
\* lookup, the move ordering); i >= 1 is the i-th iteration of the for loop,
\* with the activation's locals cache_key, ordered_actions, best_score and
\* best_move; past the last action, or at a beta cutoff, the result is stored
\* in the cache and returned.
RECURSIVE NegamaxRun(_, _, _, _, _, _, _, _, _, _, _)
RECURSIVE AfterChild(_, _, _, _, _, _, _, _, _, _, _)
RECURSIVE AfterScore(_, _, _, _, _, _, _, _, _, _, _, _)
RECURSIVE Lookup(_, _, _, _, _, _, _, _)
RECURSIVE Loop(_, _, _, _, _, _, _, _)
RECURSIVE Entry(_, _, _, _, _, _, _)

\* the body of one loop iteration after the recursive call has returned sub
AfterChild(sub, d, a, bt, p, cache_key, ordered_actions, i, best_score, best_move, action) ==
  AfterScore(SetCell(sub.board, action \div SIZE, action % SIZE, 0), sub.cache, -sub.score,
             d, a, bt, p, cache_key, ordered_actions, i, best_score, best_move)

\* mutant: best_move is not updated with best_score
AfterScore_no_move(b, ch, score, d, a, bt, p, cache_key, ordered_actions, i, best_score, best_move) ==
  LET bs == IF score > best_score THEN score ELSE best_score
      a2 == Max(a, score)
  IN  IF a2 >= bt
      THEN StoreAndReturn(b, ch, cache_key, bs, best_move)
      ELSE NegamaxRun(b, d, a2, bt, p, ch, cache_key, ordered_actions, i + 1, bs, best_move)

AfterScore(b, ch, score, d, a, bt, p, cache_key, ordered_actions, i, best_score, best_move) ==
  LET better == score > best_score
      bs == IF better THEN score ELSE best_score
      bm == IF better THEN Some(ordered_actions[i]) ELSE best_move
      a2 == Max(a, score)
  IN  IF a2 >= bt
      THEN StoreAndReturn(b, ch, cache_key, bs, bm)
      ELSE NegamaxRun(b, d, a2, bt, p, ch, cache_key, ordered_actions, i + 1, bs, bm)

\* the for loop, entered with the ordered moves
Loop(om, d, a, bt, p, ch, cache_key, valid_actions) ==
  NegamaxRun(om.board, d, a, bt, p, ch, cache_key, om.actions, 1, -Inf, None)

\* the cache lookup under cache_key
Lookup(b, d, a, bt, p, ch, cache_key, valid_actions) ==
  IF cache_key \in DOMAIN ch
  THEN Returned(ch[cache_key][1], ch[cache_key][2], b, ch)
  ELSE Loop(order_moves(b, valid_actions, p), d, a, bt, p, ch, cache_key, valid_actions)

\* the returns before the cache lookup, given the empty cells
Entry(b, d, a, bt, p, ch, valid_actions) ==
  IF valid_actions = <<>> THEN Returned(0, None, b, ch)
  ELSE IF d = 0 THEN Returned(evaluate_board(b, p), None, b, ch)
  ELSE Lookup(b, d, a, bt, p, ch, <<compute_zobrist_hash(b), p, d>>, valid_actions)

NegamaxRun(b, d, a, bt, p, ch, cache_key, ordered_actions, i, best_score, best_move) ==
  IF i = 0
  THEN IF check_winner(b, -p)
       THEN Returned(TerminalScore(d), None, b, ch)
       ELSE Entry(b, d, a, bt, p, ch, EmptyCells(b))
  ELSE IF i > Len(ordered_actions)
  THEN StoreAndReturn(b, ch, cache_key, best_score, best_move)
  ELSE AfterChild(NegamaxRun(SetCell(b, ordered_actions[i] \div SIZE,
                                     ordered_actions[i] % SIZE, p),
                             d - 1, -bt, -a, -p, ch, <<>>, <<>>, 0, -Inf, None),
                  d, a, bt, p, cache_key, ordered_actions, i, best_score, best_move,
                  ordered_actions[i])

negamax(b, d, a, bt, p, ch) ==
  NegamaxRun(b, d, a, bt, p, ch, <<>>, <<>>, 0, -Inf, None)

\* cache_opt is None or Some(cache)
find_best_move(b, p, max_depth, cache_opt) ==
  LET ch == IF cache_opt = None THEN <<>> ELSE cache_opt[1]
      res == negamax(b, max_depth, -Inf, Inf, p, ch)
  IN  [action |-> res.move, board |-> res.board, cache |-> res.cache]

\* full-width negamax: same returns, no window, no cache
RECURSIVE FullWidth(_, _, _)
FullWidth(b, d, p) ==
  IF check_winner(b, -p) THEN -WIN_SCORE + d
  ELSE LET valid_actions == EmptyCells(b)
           Child(k) == -FullWidth(SetCell(b, valid_actions[k] \div SIZE,
                                          valid_actions[k] % SIZE, p), d - 1, -p)
           scores == {Child(k) : k \in 1 .. Len(valid_actions)}
       IN  IF valid_actions = <<>> THEN 0
           ELSE IF d = 0 THEN evaluate_board(b, p)
           ELSE CHOOSE s \in scores : \A t \in scores : t <= s

\* ------------------------------------------------------------ inputs
FromCells(cells) ==
  [r \in 0 .. SIZE - 1 |-> [c \in 0 .. SIZE - 1 |-> cells[r * SIZE + c + 1]]]

CellAt(b, cell) == b[cell \div SIZE][cell % SIZE]

IsFull(b) == \A cell \in Cells : CellAt(b, cell) # 0

FullBoards == [0 .. SIZE - 1 -> [0 .. SIZE - 1 -> Players]]

\* player 1 owns the whole top row and nothing else
TopRowOnly == [r \in 0 .. SIZE - 1 |-> [c \in 0 .. SIZE - 1 |-> IF r = 0 THEN 1 ELSE 0]]

\* player -1 owns row 0 from column 0 up to column last, and nothing else
RowZeroChain(last) ==
  [r \in 0 .. SIZE - 1 |-> [c \in 0 .. SIZE - 1 |-> IF r = 0 /\ c <= last THEN -1 ELSE 0]]

ScenarioBoards ==
  {initialize_board, TopRowOnly, RowZeroChain(SIZE - 1), RowZeroChain(SIZE - 2)}

\* ------------------------------------------------------------ game loop
Idle == [op |-> "none"]

MaxGameDepth == 1

HumanChoices == 2

\* the human's input: one of the first HumanChoices valid actions
FirstOf(seq, n) == SubSeq(seq, 1, IF Len(seq) < n THEN Len(seq) ELSE n)

\* valid_actions = [i for i in range(SIZE * SIZE) if board[i // SIZE][i % SIZE] == 0]
HumanValidActions(b) ==
  LET IsValid(i) == At(b, i \div SIZE, i % SIZE) = 0
  IN  SelectSeq(RangeSeq(0, SIZE * SIZE, 1), IsValid)

HumanInputs(b) == FirstOf(HumanValidActions(b), HumanChoices)

Init ==
  /\ board = initialize_board
  /\ player = 1
  /\ move_count = 0
  /\ ai_players \in SUBSET Players
  /\ depth \in 1 .. MaxGameDepth
  /\ alpha = -Inf
  /\ beta = Inf
  /\ cache = <<>>
  /\ ret = Idle
  /\ pc = "turn"
  /\ acc = {}

\* the rest of an iteration of the while loop, once the move is on the board
AfterMove(placed, who, move) ==
  /\ board' = placed.board
  /\ ret' = [op |-> who, move |-> move]
  /\ IF placed.raised
     THEN pc' = "raised" /\ UNCHANGED <<player, move_count>>
     ELSE IF check_winner(placed.board, player)
     THEN pc' = "won" /\ UNCHANGED <<player, move_count>>
     ELSE /\ player' = -player
          /\ move_count' = move_count + 1
          /\ pc' = IF move_count + 1 >= SIZE * SIZE THEN "filled" ELSE "turn"
  /\ UNCHANGED <<depth, alpha, beta, cache, ai_players, acc>>

\* apply_action(board, best_move, current_player); divmod(None, SIZE) raises
ApplyBestMove(found, p) ==
  IF found.action = None THEN [raised |-> TRUE, board |-> found.board]
  ELSE apply_action(found.board, found.action[1], p)

AITurnWith(found) == AfterMove(ApplyBestMove(found, player), "ai", found.action)

AITurn ==
  /\ pc = "turn"
  /\ player \in ai_players
  /\ AITurnWith(find_best_move(board, player, depth, None))

HumanTurn ==
  /\ pc = "turn"
  /\ player \notin ai_players
  /\ \E k \in 1 .. Len(HumanInputs(board)) :
       AfterMove(apply_action(board, HumanInputs(board)[k], player), "human",
                 Some(HumanInputs(board)[k]))

Next == AITurn \/ HumanTurn

Spec == Init /\ [][Next]_vars

\* ------------------------------------------------------------ board judgements
InitBoards ==
  /\ board \in FullBoards \cup ScenarioBoards
  /\ player = 1
  /\ depth = 0
  /\ alpha = -Inf
  /\ beta = Inf
  /\ cache = <<>>
  /\ ret = Idle
  /\ pc = "input"
  /\ ai_players = {}
  /\ move_count = 0
  /\ acc = {}

Judge(p) ==
  /\ pc = "input"
  /\ player' = p
  /\ ret' = [op |-> "judge",
             winner |-> check_winner(board, p),
             sp |-> shortest_path_length(board, p),
             eval |-> evaluate_board(board, p)]
  /\ pc' = "judged"
  /\ UNCHANGED <<board, depth, alpha, beta, cache, ai_players, move_count, acc>>

NextBoards == \E p \in Players : Judge(p)

SpecBoards == InitBoards /\ [][NextBoards]_vars

\* ------------------------------------------------------------ search calls
MaxEmpty == 2

MaxDepth == 1

MaxDeepDepth == 5

\* a full board; the search boards are this board with up to MaxEmpty cells emptied
BaseBoard ==
  FromCells(<< 1, -1, -1, -1,
               1,  1,  1,  1,
              -1, -1, -1,  1,
              -1,  1,  1, -1 >>)

Emptied(b, cells) ==
  [r \in 0 .. SIZE - 1 |-> [c \in 0 .. SIZE - 1 |->
     IF r * SIZE + c \in cells THEN 0 ELSE b[r][c]]]

SearchBoards ==
  {Emptied(BaseBoard, E) : E \in {X \in SUBSET Cells : Cardinality(X) <= MaxEmpty}}

\* two middle-game boards with seven empty cells, searched deeper
DeepBoardA ==
  FromCells(<< 1,  1,  1,  1,
               0, -1,  0,  1,
               0,  0, -1,  0,
               0,  0,  1,  1 >>)

DeepBoardB ==
  FromCells(<< -1,  0,  0, -1,
                1, -1,  1,  0,
                1, -1,  0,  1,
                0,  1, -1,  0 >>)

DeepBoards == {DeepBoardA, DeepBoardB}

Windows == {<<-Inf, Inf>>, <<-1, 1>>}

\* a cache holding one entry, under the key of the position itself
StaleCache(b, p, d) == <<compute_zobrist_hash(b), p, d>> :> <<7, Some(0)>>

CacheKinds == {"empty", "stale"}

CacheOf(kind, b, p, d) == IF kind = "stale" THEN StaleCache(b, p, d) ELSE <<>>

\* the arguments of one call: op names the function called
Arguments(op, b, p, d, a, bt, ch) ==
  /\ pc = op
  /\ board = b
  /\ player = p
  /\ depth = d
  /\ alpha = a
  /\ beta = bt
  /\ cache = ch
  /\ ret = Idle
  /\ ai_players = {}
  /\ move_count = 0
  /\ acc = {}

InitNegamax ==
  \E b \in SearchBoards, p \in Players, d \in 0 .. MaxDepth,
     w \in Windows, kind \in CacheKinds :
    Arguments("negamax", b, p, d, w[1], w[2], CacheOf(kind, b, p, d))

InitDeep ==
  \E b \in DeepBoards, p \in Players, d \in 1 .. MaxDeepDepth :
    Arguments("negamax", b, p, d, -Inf, Inf, <<>>)

\* the opening position, searched one ply deeper than the emptied boards
InitOpening ==
  \E p \in Players, d \in 1 .. MaxDepth + 1 :
    Arguments("negamax", initialize_board, p, d, -Inf, Inf, <<>>)

InitFind ==
  \E b \in SearchBoards, p \in Players, d \in 0 .. MaxDepth, kind \in CacheKinds :
    Arguments("find_best_move", b, p, d, -Inf, Inf,
              IF kind = "stale" THEN Some(StaleCache(b, p, d)) ELSE None)

InitOrder ==
  \E b \in SearchBoards \cup DeepBoards, p \in Players :
    Arguments("order_moves", b, p, 0, -Inf, Inf, <<>>)

InitSearch == InitNegamax \/ InitDeep \/ InitOpening \/ InitFind \/ InitOrder

CallNegamax ==
  /\ pc = "negamax"
  /\ LET res == negamax(board, depth, alpha, beta, player, cache)
     IN  /\ board' = res.board
         /\ cache' = res.cache
         /\ ret' = [op |-> "negamax", score |-> res.score, move |-> res.move]
  /\ pc' = "returned"
  /\ UNCHANGED <<player, depth, alpha, beta, ai_players, move_count, acc>>

CallFindBestMove ==
  /\ pc = "find_best_move"
  /\ LET res == find_best_move(board, player, depth, cache)
     IN  /\ board' = res.board
         /\ cache' = IF cache = None THEN None ELSE Some(res.cache)
         /\ ret' = [op |-> "find_best_move", action |-> res.action]
  /\ pc' = "returned"
  /\ UNCHANGED <<player, depth, alpha, beta, ai_players, move_count, acc>>

CallOrderMoves ==
  /\ pc = "order_moves"
  /\ LET res == order_moves(board, EmptyCells(board), player)
     IN  /\ board' = res.board
         /\ ret' = [op |-> "order_moves", actions |-> res.actions]
  /\ pc' = "returned"
  /\ UNCHANGED <<player, depth, alpha, beta, cache, ai_players, move_count, acc>>

NextSearch == CallNegamax \/ CallFindBestMove \/ CallOrderMoves

SpecSearch == InitSearch /\ [][NextSearch]_vars

\* ------------------------------------------------------------ stone placement
MaxStones == 3

\* ZOBRIST_RANDOMS[cell_id][0] for player 1, ZOBRIST_RANDOMS[cell_id][1] for player -1
TableValue(cell, p) == ZOBRIST_RANDOMS[cell + 1][IF p = 1 THEN 1 ELSE 2]

InitHash ==
  /\ board = initialize_board
  /\ player = 1
  /\ depth = 0
  /\ alpha = -Inf
  /\ beta = Inf
  /\ cache = <<>>
  /\ ret = [op |-> "hash", value |-> compute_zobrist_hash(initialize_board), last |-> None]
  /\ pc = "place"
  /\ ai_players = {}
  /\ move_count = 0
  /\ acc = {}

\* a stone of either colour on any empty cell; acc is XORed in placement order
PlaceStone(cell, p) ==
  /\ pc = "place"
  /\ move_count < MaxStones
  /\ is_valid_action(board, cell)
  /\ board' = apply_action(board, cell, p).board
  /\ player' = p
  /\ move_count' = move_count + 1
  /\ acc' = XOR(acc, TableValue(cell, p))
  /\ ret' = [op |-> "hash",
             value |-> compute_zobrist_hash(apply_action(board, cell, p).board),
             last |-> Some(cell)]
  /\ UNCHANGED <<depth, alpha, beta, cache, pc, ai_players>>

NextHash == \E cell \in Cells, p \in Players : PlaceStone(cell, p)

SpecHash == InitHash /\ [][NextHash]_vars

\* ------------------------------------------------------------ chains
OnStartEdge(cell, p) == IF p = 1 THEN cell \div SIZE = 0 ELSE cell % SIZE = 0

OnGoalEdge(cell, p) == IF p = 1 THEN cell \div SIZE = SIZE - 1 ELSE cell % SIZE = SIZE - 1

Adjacent(x, y) == InSeq(y, NeighborTable[x])

Owned(b, p) == {cell \in Cells : CellAt(b, cell) = p}

NeighborSets == [x \in Cells |-> {y \in Cells : Adjacent(x, y)}]

\* ends is the set of cells that a chain of exactly k edges from an owned
\* start-edge cell ends at; the result is the set of the lengths k <= last of
\* the chains that end on the goal edge
RECURSIVE ChainScan(_, _, _, _, _)
ChainScan(owned, p, ends, k, last) ==
  LET here == IF \E cell \in ends : OnGoalEdge(cell, p) THEN {k} ELSE {}
      next == owned \cap UNION {NeighborSets[x] : x \in ends}
  IN  IF k = last \/ ends = {} THEN here
      ELSE here \cup ChainScan(owned, p, next, k + 1, last)

\* a shortest chain never repeats a cell, so SIZE * SIZE - 1 edges suffice
ChainLengths(b, p) ==
  LET owned == Owned(b, p)
  IN  ChainScan(owned, p, {cell \in owned : OnStartEdge(cell, p)}, 0, SIZE * SIZE - 1)

HasChain(b, p) == ChainLengths(b, p) # {}

Least(S) == CHOOSE k \in S : \A j \in S : k <= j

\* C4: check_winner(board, p) is true exactly when a chain of p-owned cells,
\* consecutive cells adjacent under get_neighbors, links an owned cell of p's
\* start edge to an owned cell of p's goal edge; a chain that stops one cell
\* short of the goal edge gives false
C4_WinDetection ==
  pc = "judged" =>
    /\ ret.winner <=> HasChain(board, player)
    /\ (board = RowZeroChain(SIZE - 2) /\ player = -1) => ~ret.winner

\* C4 witness: player -1 owns the whole of row 0 and is found to have won
C4_Witness ==
  /\ pc = "judged" /\ player = -1 /\ ret.winner
  /\ board = RowZeroChain(SIZE - 1)

\* C7: on a board with no empty cell at least one player has won
C7_NoDraw ==
  (pc = "judged" /\ IsFull(board) /\ ~ret.winner) => check_winner(board, -player)

\* C7 witness: a full board that the judged player has not won and the other has
C7_Witness ==
  /\ pc = "judged" /\ IsFull(board) /\ ~ret.winner /\ check_winner(board, -player)

\* C8: shortest_path_length is None exactly when no chain links the edges, and
\* otherwise the least number of edges of such a chain; player 1 owning the
\* top row and nothing else gives None
C8_ShortestDistance ==
  pc = "judged" =>
    LET lengths == ChainLengths(board, player)
    IN  /\ IF lengths = {} THEN ret.sp = None ELSE ret.sp = Some(Least(lengths))
        /\ (board = TopRowOnly /\ player = 1) => ret.sp = None

\* C8 witness: a board whose shortest chain winds, longer than the straight one
C8_Witness ==
  /\ pc = "judged" /\ ret.sp # None /\ ret.sp[1] > SIZE
  /\ ret.sp[1] = Least(ChainLengths(board, player))

\* C9: at most one player has a connecting chain, so evaluate_board is one of
\* -9999, 0, 9999 and changes sign with the player
C9_EvalSentinels ==
  pc = "judged" =>
    /\ ~(ret.sp # None /\ shortest_path_length(board, -player) # None)
    /\ ret.eval \in {-EVAL_SENTINEL, 0, EVAL_SENTINEL}
    /\ ret.eval = -evaluate_board(board, -player)

\* C9 witness: a board on which the judged player, and only that player, connects
C9_Witness ==
  /\ pc = "judged" /\ ret.eval = EVAL_SENTINEL /\ ret.sp # None
  /\ ~IsFull(board) /\ shortest_path_length(board, -player) = None

\* ------------------------------------------------------------ search claims
EmptyOn(b, cell) == cell \in Cells /\ CellAt(b, cell) = 0

\* C1: when negamax, find_best_move or order_moves returns, every cell of the
\* board holds the value it held before the call
C1_BoardRestored ==
  [][pc' = "returned" => board' = board]_vars

\* C1 witness: a depth-MaxDeepDepth search that placed stones and filled the cache
C1_Witness ==
  /\ pc = "returned" /\ ret.op = "negamax" /\ depth = MaxDeepDepth
  /\ board = DeepBoardB /\ ret.move # None /\ Cardinality(DOMAIN cache) > SIZE

\* C2 as stated: at the root, with the full window and an empty cache, negamax
\* returns the score of the full-width search, at every depth
C2_PruningEquivalence ==
  [][(pc = "negamax" /\ pc' = "returned" /\ alpha = -Inf /\ beta = Inf /\ cache = <<>>)
       => ret'.score = FullWidth(board, depth, player)]_vars

\* C2 amended: the same, for depths up to 4
C2_PruningEquivalenceShallow ==
  [][(pc = "negamax" /\ pc' = "returned" /\ alpha = -Inf /\ beta = Inf /\ cache = <<>>
      /\ depth <= 4)
       => ret'.score = FullWidth(board, depth, player)]_vars

\* C2 witness: a depth-4 search with cache hits that agrees with the full width
C2_Witness ==
  /\ pc = "returned" /\ ret.op = "negamax" /\ depth = 4 /\ board = DeepBoardA
  /\ alpha = -Inf /\ beta = Inf /\ ret.score = FullWidth(board, depth, player)
  /\ Cardinality(DOMAIN cache) > SIZE

\* C3 as stated: find_best_move with a positive depth and no cache returns an
\* empty cell of the board or None, and None only if no cell is empty
C3_OutputLegality ==
  [][(pc = "find_best_move" /\ pc' = "returned" /\ depth >= 1 /\ cache = None)
       => /\ ret'.action = None \/ EmptyOn(board, ret'.action[1])
          /\ ret'.action = None => IsFull(board)]_vars

\* C3 amended: None only if no cell is empty or the opponent has already won
C3_OutputLegalityUnlessLost ==
  [][(pc = "find_best_move" /\ pc' = "returned" /\ depth >= 1 /\ cache = None)
       => /\ ret'.action = None \/ EmptyOn(board, ret'.action[1])
          /\ ret'.action = None => (IsFull(board) \/ HasChain(board, -player))]_vars

\* C3 witness: an undecided board on which an empty cell is returned
C3_Witness ==
  /\ pc = "returned" /\ ret.op = "find_best_move" /\ depth >= 1 /\ cache = None
  /\ ret.action # None /\ EmptyOn(board, ret.action[1])
  /\ ~HasChain(board, 1) /\ ~HasChain(board, -1)

\* C5: on a board where P has a winning chain, negamax with -P to move returns
\* (-999999 + depth, None), the board and the cache untouched, whatever the
\* depth, the window and the cache hold
C5_TerminalCorrectness ==
  [][(pc = "negamax" /\ pc' = "returned" /\ HasChain(board, -player))
       => /\ ret'.score = -WIN_SCORE + depth
          /\ ret'.move = None
          /\ board' = board
          /\ cache' = cache]_vars

\* C5 witness: a decided board with empty cells, searched with a cache that
\* holds an entry under the position's own key
C5_Witness ==
  /\ pc = "returned" /\ ret.op = "negamax" /\ HasChain(board, -player)
  /\ depth = MaxDepth /\ ~IsFull(board)
  /\ cache = StaleCache(board, player, depth)
  /\ ret.score = -WIN_SCORE + depth /\ ret.move = None

\* ------------------------------------------------------------ hash claims
\* the XOR, in any order, of the table values of the stones on the board
RECURSIVE XorOfStones(_)
XorOfStones(stones) ==
  IF stones = {} THEN {}
  ELSE LET s == CHOOSE x \in stones : TRUE
       IN  XOR(TableValue(s[1], s[2]), XorOfStones(stones \ {s}))

StonesOn(b) == {s \in Cells \X Players : CellAt(b, s[1]) = s[2]}

\* C6: whatever the order in which the stones were placed on the empty board,
\* compute_zobrist_hash of the resulting board is the XOR of the table values
\* of the occupied (cell, player) pairs: it equals both the XOR accumulated in
\* placement order and the XOR over the set of stones on the board
C6_HashOrderIndependent ==
  (pc = "place" /\ ret.op = "hash") =>
    /\ ret.value = acc
    /\ ret.value = XorOfStones(StonesOn(board))

\* C6 witness: stones of both colours, the last one placed before an earlier one
\* in scan order
C6_Witness ==
  /\ pc = "place" /\ ret.op = "hash" /\ move_count >= 3
  /\ ret.last # None
  /\ \E x \in Owned(board, 1), y \in Owned(board, -1) :
       x > ret.last[1] /\ y > ret.last[1]
  /\ ret.value = acc
  /\ acc # {}

\* ------------------------------------------------------------ game claims
NoWinner(b) == ~check_winner(b, 1) /\ ~check_winner(b, -1)

StonesKept(b, after) == \A cell \in Cells : CellAt(b, cell) # 0 => CellAt(after, cell) = CellAt(b, cell)

\* C10: in every run of the game loop, at each AI turn neither player has won
\* and the board has an empty cell; find_best_move returns an empty cell, never
\* None; apply_action never raises; the move puts the mover's stone on that
\* cell and changes nothing else; the players alternate until a winner is
\* declared, and the loop ends only with a winner
C10_GameLoop ==
  [][ /\ (player \in ai_players => NoWinner(board) /\ EmptyCells(board) # <<>>)
      /\ ret'.move # None
      /\ (player \in ai_players => ret'.op = "ai")
      /\ CellAt(board, ret'.move[1]) = 0
      /\ pc' # "raised"
      /\ board' = SetCell(board, ret'.move[1] \div SIZE, ret'.move[1] % SIZE, player)
      /\ StonesKept(board, board')
      /\ pc' \in {"turn", "won"}
      /\ (pc' = "turn" => player' = -player /\ NoWinner(board'))
      /\ (pc' = "won" => player' = player /\ check_winner(board', player))
    ]_vars

\* C10 witness: an AI playing against a human has moved several times and won
C10_Witness ==
  /\ pc = "won" /\ ret.op = "ai"
  /\ Cardinality(ai_players) = 1
  /\ player \in ai_players
  /\ Cardinality(Owned(board, player)) >= SIZE

====
